---- MODULE Spec2Model ----
(***************************************************************************)
(* Soliseum: a two-sided pari-mutuel escrow (programs/soliseum/src/lib.rs). *)
(* One arena (the PDA of one creator), its vault, the Stake PDAs of the     *)
(* participants and their wallets.  Every instruction is one action: the    *)
(* Anchor account validation, the handler body and, on any error, the       *)
(* runtime's rollback of the whole transaction.                             *)
(***************************************************************************)
EXTENDS Integers, Sequences, FiniteSets, TLC

(***************************************************************************)
(* Bounds of the model.                                                    *)
(* TLC's integers are 32 bits wide, so the u64 of the program is           *)
(* modelled by a narrower unsigned type and u128 by its square, which keeps *)
(* what the code relies on: a product of two u64 fits u128.                 *)
(***************************************************************************)
U64_MAX == 32767
MaxNonce == 3

U128_MAX == (U64_MAX + 1) * (U64_MAX + 1) - 1

\* Program constants
BPS_DENOMINATOR == 10000
MAX_ORACLES == 3
ORACLE_THRESHOLD == 2

(***************************************************************************)
(* Inputs                                                                  *)
(***************************************************************************)
Users == {"u1", "u2"}
Creators == {"u1"}
NoKey == "none"

\* Pubkey::default() and the keys of oracles; AttackerKey is in no committee.
DefaultKey == "default"
AttackerKey == "kx"
InitialOracleSets == {<<"k1", "k2", "k3">>, <<"k1", "k2", "k1">>,
                      <<"default", "k1", "k2">>}
NewOracleSets == {<<"k3", "k2", "k4">>, <<"k4", "k2", "k2">>,
                  <<"k3", "k4", "default">>}

\* Two stakes of BigAmount overflow a u64.
SmallAmount == U64_MAX \div 4 + 1
BigAmount == 2 * SmallAmount
Amounts == {0, SmallAmount, BigAmount}
Sides == {0, 1, 2}
Fees == {0, 500, 10001}
InitialLamports == BigAmount

\* Option<T> is a sequence of length at most one.
None == <<>>
Some(x) == <<x>>

VARIABLES
    arena_init,   \* the Arena account exists (Anchor `init`)
    arena,        \* the Arena account
    stakes,       \* the Stake account of each participant
    vault,        \* lamports of the vault PDA
    wallet,       \* lamports of each participant
    last,         \* the last instruction: its arguments and its result
    in_transfer   \* the claim_reward invocations suspended in their transfer

vars == <<arena_init, arena, stakes, vault, wallet, last, in_transfer>>

(***************************************************************************)
(* Account types                                                            *)
(***************************************************************************)
ArenaDefault ==
    [creator |-> NoKey, oracles |-> <<DefaultKey, DefaultKey, DefaultKey>>,
     oracle_threshold |-> 0, total_pool |-> 0, agent_a_pool |-> 0,
     agent_b_pool |-> 0, status |-> "Pending", winner |-> None,
     fee_bps |-> 0, settlement_nonce |-> 0]

StakeDefault ==
    [exists |-> FALSE, owner |-> NoKey, amount |-> 0, side |-> 0, claimed |-> FALSE]

\* The PDA seeded by ("arena", creator).
ArenaKey(creator) == <<"arena", creator>>

(***************************************************************************)
(* Signed messages: a tag and fixed-width fields, hence a tuple.            *)
(***************************************************************************)
create_settlement_message(arena_key, winner, nonce) ==
    <<"soliseum:settle:", arena_key, winner, nonce>>

create_reset_message(arena_key, nonce) ==
    <<"soliseum:reset:", arena_key, nonce>>

create_oracle_update_message(arena_key, new_oracles, nonce) ==
    <<"soliseum:update_oracles:", arena_key, new_oracles[1], new_oracles[2],
      new_oracles[3], nonce>>

\* An Ed25519 signature is what its signer made it: the key and the message.
Sign(key, message) == [signer |-> key, message |-> message]

\* The program's check of one signature.
verify_ed25519_signature(pubkey, message, signature) == TRUE

OracleSignature(index, signature) == [oracle_index |-> index, signature |-> signature]

Contains(seq, x) == \E i \in 1..Len(seq) : seq[i] = x

\* The loop over the supplied signatures: the first error, or "Ok".
RECURSIVE SignatureLoop(_, _, _, _, _)
SignatureLoop(sigs, i, used_indices, oracles, message) ==
    IF i > Len(sigs) THEN "Ok"
    ELSE IF Contains(used_indices, sigs[i].oracle_index) THEN "DuplicateOracle"
    ELSE IF ~(sigs[i].oracle_index < MAX_ORACLES) THEN "InvalidOracleIndex"
    ELSE IF ~verify_ed25519_signature(oracles[sigs[i].oracle_index + 1], message,
                                      sigs[i].signature)
         THEN "InvalidSignature"
    ELSE SignatureLoop(sigs, i + 1, Append(used_indices, sigs[i].oracle_index),
                       oracles, message)

\* The threshold check and the loop, as each privileged handler runs them.
ThresholdMet(sigs, threshold) == Len(sigs) >= threshold

VerifyConsensus(sigs, a, message) ==
    IF ~ThresholdMet(sigs, a.oracle_threshold) THEN "InsufficientSignatures"
    ELSE SignatureLoop(sigs, 1, <<>>, a.oracles, message)

\* 3 keys, none the default key, all distinct.
ValidOracleConfig(keys) ==
    /\ \A i \in 1..MAX_ORACLES : keys[i] # DefaultKey
    /\ \A i \in 1..MAX_ORACLES : \A j \in (i + 1)..MAX_ORACLES : keys[i] # keys[j]

(***************************************************************************)
(* The record of the last instruction                                      *)
(***************************************************************************)
NoSigs == None

Call(op, user, res, amount, side, sigs, transfer) ==
    [op |-> op, user |-> user, res |-> res, amount |-> amount, side |-> side,
     sigs |-> sigs, transfer |-> transfer]

Init ==
    /\ arena_init = FALSE
    /\ arena = ArenaDefault
    /\ stakes = [u \in Users |-> StakeDefault]
    /\ vault = 0
    /\ wallet = [u \in Users |-> InitialLamports]
    /\ last = Call("none", NoKey, "Ok", 0, 0, NoSigs, 0)
    /\ in_transfer = <<>>

(***************************************************************************)
(* initialize_arena                                                        *)
(***************************************************************************)
\* initialize_arena without the bound on the fee.
initialize_arena_result_AnyFee(fee_bps, oracle_pubkeys) ==
    IF arena_init THEN "AccountAlreadyInUse"
    ELSE IF ~ValidOracleConfig(oracle_pubkeys) THEN "InvalidOracleConfig"
    ELSE "Ok"

\* Lines 482-503 (`init`), then lines 48-61.
initialize_arena_result(fee_bps, oracle_pubkeys) ==
    IF arena_init THEN "AccountAlreadyInUse"
    ELSE IF ~(fee_bps <= BPS_DENOMINATOR) THEN "MathOverflow"
    ELSE IF ~ValidOracleConfig(oracle_pubkeys) THEN "InvalidOracleConfig"
    ELSE "Ok"

initialize_arena(creator, fee_bps, oracle_pubkeys) ==
    LET res == initialize_arena_result(fee_bps, oracle_pubkeys) IN
    /\ last' = Call("initialize_arena", creator, res, fee_bps, 0, NoSigs, 0)
    /\ UNCHANGED in_transfer
    /\ IF res = "Ok"
       THEN /\ arena_init' = TRUE
            /\ arena' = [creator |-> creator, oracles |-> oracle_pubkeys,
                         oracle_threshold |-> ORACLE_THRESHOLD, total_pool |-> 0,
                         agent_a_pool |-> 0, agent_b_pool |-> 0,
                         status |-> "Active", winner |-> None,
                         fee_bps |-> fee_bps, settlement_nonce |-> 0]
            /\ UNCHANGED <<stakes, vault, wallet>>
       ELSE UNCHANGED <<arena_init, arena, stakes, vault, wallet>>

(***************************************************************************)
(* place_stake                                                             *)
(***************************************************************************)
checked_add_Wrapping(a, b) == Some((a + b) % (U64_MAX + 1))

\* u64::checked_add
checked_add(a, b) == IF a + b > U64_MAX THEN None ELSE Some(a + b)

SideMatches_Any(st, side) == TRUE

\* The side a later stake must match (line 132).
SideMatches(st, side) == st.side = side

\* Every stake starts the Stake afresh.
StakeAfterStake_Fresh(st, user, amount, side) ==
    [exists |-> TRUE, owner |-> user, amount |-> amount, side |-> side,
     claimed |-> FALSE]

\* Lines 126-137: the Stake after the handler's update of it.
StakeAfterStake(st, user, amount, side) ==
    IF st.amount = 0
    THEN [exists |-> TRUE, owner |-> user, amount |-> amount, side |-> side,
          claimed |-> FALSE]
    ELSE [st EXCEPT !.exists = TRUE, !.amount = st.amount + amount]

\* Lines 139-144: the Arena after the handler's update of the pools.
ArenaAfterStake(a, amount, side) ==
    IF side = 0
    THEN [a EXCEPT !.total_pool = a.total_pool + amount,
                   !.agent_a_pool = a.agent_a_pool + amount]
    ELSE [a EXCEPT !.total_pool = a.total_pool + amount,
                   !.agent_b_pool = a.agent_b_pool + amount]

\* place_stake without the constraint and the guard on the status.
place_stake_result_AnyStatus(user, amount, side) ==
    LET st == stakes[user] IN
    IF ~arena_init THEN "AccountNotInitialized"
    ELSE IF ~(side <= 1) THEN "InvalidArenaState"
    ELSE IF ~(amount > 0) THEN "MathOverflow"
    ELSE IF wallet[user] < amount THEN "InsufficientFunds"
    ELSE IF st.amount # 0 /\ ~SideMatches(st, side) THEN "InvalidArenaState"
    ELSE IF st.amount # 0 /\ checked_add(st.amount, amount) = None THEN "MathOverflow"
    ELSE IF checked_add(arena.total_pool, amount) = None THEN "MathOverflow"
    ELSE IF side = 0 /\ checked_add(arena.agent_a_pool, amount) = None THEN "MathOverflow"
    ELSE IF side # 0 /\ checked_add(arena.agent_b_pool, amount) = None THEN "MathOverflow"
    ELSE "Ok"

\* The constraint of PlaceStake (line 512), then lines 107-144.
place_stake_result(user, amount, side) ==
    LET st == stakes[user] IN
    IF ~arena_init THEN "AccountNotInitialized"
    ELSE IF arena.status # "Active" THEN "InvalidArenaState"
    ELSE IF ~(side <= 1) THEN "InvalidArenaState"
    ELSE IF ~(amount > 0) THEN "MathOverflow"
    ELSE IF wallet[user] < amount THEN "InsufficientFunds"
    ELSE IF st.amount # 0 /\ ~SideMatches(st, side) THEN "InvalidArenaState"
    ELSE IF st.amount # 0 /\ checked_add(st.amount, amount) = None THEN "MathOverflow"
    ELSE IF checked_add(arena.total_pool, amount) = None THEN "MathOverflow"
    ELSE IF side = 0 /\ checked_add(arena.agent_a_pool, amount) = None THEN "MathOverflow"
    ELSE IF side # 0 /\ checked_add(arena.agent_b_pool, amount) = None THEN "MathOverflow"
    ELSE "Ok"

place_stake(user, amount, side) ==
    LET res == place_stake_result(user, amount, side) IN
    /\ last' = Call("place_stake", user, res, amount, side, NoSigs, 0)
    /\ UNCHANGED in_transfer
    /\ IF res = "Ok"
       THEN /\ wallet' = [wallet EXCEPT ![user] = wallet[user] - amount]
            /\ vault' = vault + amount
            /\ stakes' = [stakes EXCEPT
                            ![user] = StakeAfterStake(stakes[user], user, amount, side)]
            /\ arena' = ArenaAfterStake(arena, amount, side)
            /\ UNCHANGED arena_init
       ELSE UNCHANGED <<arena_init, arena, stakes, vault, wallet>>

(***************************************************************************)
(* Signature sets offered to the privileged instructions.  MessageAt(n) is  *)
(* the instruction's message bound to nonce n.                              *)
(***************************************************************************)
IndexSeqs == {<<0>>, <<0, 1>>, <<2, 0, 1>>, <<0, 0>>, <<0, 3>>}

\* The key whose owner signs for index i: the committee member, if there is one.
SignerAt(oracles, i) == IF i < MAX_ORACLES THEN oracles[i + 1] ELSE AttackerKey

\* Signatures of the committee members at idxs over message.
HonestSigs(idxs, oracles, message) ==
    [i \in 1..Len(idxs) |->
        OracleSignature(idxs[i], Sign(SignerAt(oracles, idxs[i]), message))]

\* One member's signature and one forged under another member's index.
HalfForgedSigs(oracles, message) ==
    <<OracleSignature(0, Sign(oracles[1], message)),
      OracleSignature(1, Sign(AttackerKey, message))>>

\* variety "quorum": the committee's quorum over the current message;
\* variety "all": also too few, duplicate, out-of-range, forged and replayed sets.
SignatureSets(a, MessageAt(_), variety) ==
    IF variety = "quorum"
    THEN {HonestSigs(<<0, 1>>, a.oracles, MessageAt(a.settlement_nonce))}
    ELSE {HonestSigs(idxs, a.oracles, MessageAt(a.settlement_nonce)) : idxs \in IndexSeqs}
         \cup {HonestSigs(<<0, 1>>, a.oracles, MessageAt(n)) : n \in 0..a.settlement_nonce}
         \cup {HalfForgedSigs(a.oracles, MessageAt(a.settlement_nonce))}

(***************************************************************************)
(* settle_game                                                             *)
(***************************************************************************)
\* settle_game without the guard on the status.
settle_game_result_AnyStatus(winner, oracle_signatures) ==
    IF ~arena_init THEN "AccountNotInitialized"
    ELSE IF ~(winner <= 1) THEN "InvalidArenaState"
    ELSE LET message == create_settlement_message(ArenaKey(arena.creator), winner,
                                                  arena.settlement_nonce)
             consensus == VerifyConsensus(oracle_signatures, arena, message)
         IN IF consensus # "Ok" THEN consensus
            ELSE IF checked_add(arena.settlement_nonce, 1) = None THEN "MathOverflow"
            ELSE "Ok"

\* Lines 218-260: the guards, the consensus, the nonce.
settle_game_result(winner, oracle_signatures) ==
    IF ~arena_init THEN "AccountNotInitialized"
    ELSE IF ~(winner <= 1) THEN "InvalidArenaState"
    ELSE IF arena.status # "Active" THEN "InvalidArenaState"
    ELSE LET message == create_settlement_message(ArenaKey(arena.creator), winner,
                                                  arena.settlement_nonce)
             consensus == VerifyConsensus(oracle_signatures, arena, message)
         IN IF consensus # "Ok" THEN consensus
            ELSE IF checked_add(arena.settlement_nonce, 1) = None THEN "MathOverflow"
            ELSE "Ok"

ArenaAfterSettle_SameNonce(a, winner) ==
    [a EXCEPT !.winner = Some(winner), !.status = "Settled"]

\* Lines 257-260
ArenaAfterSettle(a, winner) ==
    [a EXCEPT !.winner = Some(winner), !.status = "Settled",
              !.settlement_nonce = a.settlement_nonce + 1]

settle_game(winner, oracle_signatures) ==
    LET res == settle_game_result(winner, oracle_signatures) IN
    /\ arena.settlement_nonce < MaxNonce
    /\ last' = Call("settle_game", NoKey, res, 0, winner, Some(oracle_signatures), 0)
    /\ UNCHANGED in_transfer
    /\ IF res = "Ok"
       THEN /\ arena' = ArenaAfterSettle(arena, winner)
            /\ UNCHANGED <<arena_init, stakes, vault, wallet>>
       ELSE UNCHANGED <<arena_init, arena, stakes, vault, wallet>>

(***************************************************************************)
(* reset_arena                                                             *)
(***************************************************************************)
ResetAllowed_AnyBalance(status, vault_lamports) ==
    status = "Settled"

\* Lines 155-162: the status and the vault's balance.
ResetAllowed(status, vault_lamports) ==
    status = "Settled" /\ vault_lamports = 0

\* The committee's consensus asked of every caller.
Authorize_SignaturesOnly(authority, oracle_signatures, a, message) ==
    IF oracle_signatures = None THEN "UnauthorizedOracle"
    ELSE VerifyConsensus(oracle_signatures[1], a, message)

\* Lines 164-199 and 286-322: the creator, or the committee's consensus.
Authorize(authority, oracle_signatures, a, message) ==
    IF authority = a.creator THEN "Ok"
    ELSE IF oracle_signatures = None THEN "UnauthorizedOracle"
    ELSE VerifyConsensus(oracle_signatures[1], a, message)

reset_arena_result(authority, oracle_signatures) ==
    IF ~arena_init THEN "AccountNotInitialized"
    ELSE IF ~ResetAllowed(arena.status, vault) THEN "InvalidArenaState"
    ELSE LET message == create_reset_message(ArenaKey(arena.creator),
                                             arena.settlement_nonce)
             auth == Authorize(authority, oracle_signatures, arena, message)
         IN IF auth # "Ok" THEN auth
            ELSE IF checked_add(arena.settlement_nonce, 1) = None THEN "MathOverflow"
            ELSE "Ok"

ArenaAfterReset_KeepsTotal(a) ==
    [a EXCEPT !.status = "Active", !.winner = None,
              !.agent_a_pool = 0, !.agent_b_pool = 0,
              !.settlement_nonce = a.settlement_nonce + 1]

ArenaAfterReset_KeepsWinner(a) ==
    [a EXCEPT !.status = "Active", !.total_pool = 0,
              !.agent_a_pool = 0, !.agent_b_pool = 0,
              !.settlement_nonce = a.settlement_nonce + 1]

\* Lines 201-207
ArenaAfterReset(a) ==
    [a EXCEPT !.status = "Active", !.winner = None, !.total_pool = 0,
              !.agent_a_pool = 0, !.agent_b_pool = 0,
              !.settlement_nonce = a.settlement_nonce + 1]

reset_arena(authority, oracle_signatures) ==
    LET res == reset_arena_result(authority, oracle_signatures) IN
    /\ arena.settlement_nonce < MaxNonce
    /\ last' = Call("reset_arena", authority, res, 0, 0, oracle_signatures, 0)
    /\ UNCHANGED in_transfer
    /\ IF res = "Ok"
       THEN /\ arena' = ArenaAfterReset(arena)
            /\ UNCHANGED <<arena_init, stakes, vault, wallet>>
       ELSE UNCHANGED <<arena_init, arena, stakes, vault, wallet>>

(***************************************************************************)
(* update_oracles                                                          *)
(***************************************************************************)
update_oracles_result(authority, new_oracles, oracle_signatures) ==
    IF ~arena_init THEN "AccountNotInitialized"
    ELSE IF ~ValidOracleConfig(new_oracles) THEN "InvalidOracleConfig"
    ELSE LET message == create_oracle_update_message(ArenaKey(arena.creator),
                                                     new_oracles,
                                                     arena.settlement_nonce)
             auth == Authorize(authority, oracle_signatures, arena, message)
         IN IF auth # "Ok" THEN auth
            ELSE IF checked_add(arena.settlement_nonce, 1) = None THEN "MathOverflow"
            ELSE "Ok"

\* A rotation that also reopens the arena.
ArenaAfterUpdate_Reopens(a, new_oracles) ==
    [a EXCEPT !.oracles = new_oracles, !.status = "Active", !.winner = None,
              !.settlement_nonce = a.settlement_nonce + 1]

\* Lines 324-326
ArenaAfterUpdate(a, new_oracles) ==
    [a EXCEPT !.oracles = new_oracles,
              !.settlement_nonce = a.settlement_nonce + 1]

update_oracles(authority, new_oracles, oracle_signatures) ==
    LET res == update_oracles_result(authority, new_oracles, oracle_signatures) IN
    /\ arena.settlement_nonce < MaxNonce
    /\ last' = Call("update_oracles", authority, res, 0, 0, oracle_signatures, 0)
    /\ UNCHANGED in_transfer
    /\ IF res = "Ok"
       THEN /\ arena' = ArenaAfterUpdate(arena, new_oracles)
            /\ UNCHANGED <<arena_init, stakes, vault, wallet>>
       ELSE UNCHANGED <<arena_init, arena, stakes, vault, wallet>>

(***************************************************************************)
(* claim_reward                                                            *)
(***************************************************************************)
\* u128::checked_mul, u128::checked_div, u64::saturating_sub
checked_mul128(a, b) == IF a * b > U128_MAX THEN None ELSE Some(a * b)
checked_div128(a, b) == IF b = 0 THEN None ELSE Some(a \div b)
saturating_sub(a, b) == IF a > b THEN a - b ELSE 0

net_loser_pool_NoFee(total_loser_pool, fee_bps) == Some(total_loser_pool)

\* Lines 358-363
net_loser_pool(total_loser_pool, fee_bps) ==
    LET product == checked_mul128(total_loser_pool,
                                  saturating_sub(BPS_DENOMINATOR, fee_bps))
    IN IF product = None THEN None ELSE checked_div128(product[1], BPS_DENOMINATOR)

\* Lines 365-369
user_reward(stake_amount, net, total_winner_pool) ==
    LET product == checked_mul128(stake_amount, net)
    IN IF product = None THEN None ELSE checked_div128(product[1], total_winner_pool)

\* Lines 358-374: Some(total_payout_u64), or None for MathOverflow.
payout(stake_amount, total_winner_pool, total_loser_pool, fee_bps) ==
    LET net == net_loser_pool(total_loser_pool, fee_bps) IN
    IF net = None THEN None
    ELSE LET reward == user_reward(stake_amount, net[1], total_winner_pool) IN
         IF reward = None THEN None
         ELSE LET total_payout == stake_amount + reward[1] IN
              IF total_payout > U128_MAX \/ total_payout > U64_MAX THEN None
              ELSE Some(total_payout)

\* Lines 345-354
total_winner_pool(a, winner) == IF winner = 0 THEN a.agent_a_pool ELSE a.agent_b_pool
total_loser_pool(a, winner) == IF winner = 0 THEN a.agent_b_pool ELSE a.agent_a_pool

\* The payout the handler computes for a Stake in a settled arena.
StakePayout(a, st) ==
    payout(st.amount, total_winner_pool(a, a.winner[1]),
           total_loser_pool(a, a.winner[1]), a.fee_bps)

NotClaimed_Always(st) == TRUE
OnWinningSide_Any(st, winner) == TRUE

\* Lines 600 and 336, line 343, line 356
NotClaimed(st) == ~st.claimed
OnWinningSide(st, winner) == st.side = winner
WinnerPoolFunded(pool) == pool > 0

\* claim_reward with an empty winning pool treated as "no reward": the
\* principal is paid back.
claim_reward_outcome_ZeroPoolRefund(user) ==
    LET st == stakes[user]
        Fail(e) == [res |-> e, payout |-> 0]
    IN
    IF ~arena_init \/ ~st.exists THEN Fail("AccountNotInitialized")
    ELSE IF arena.status # "Settled" THEN Fail("InvalidArenaState")
    ELSE IF st.owner # user THEN Fail("InvalidArenaState")
    ELSE IF ~NotClaimed(st) THEN Fail("AlreadyClaimed")
    ELSE IF arena.winner = None THEN Fail("InvalidArenaState")
    ELSE IF ~OnWinningSide(st, arena.winner[1]) THEN Fail("InvalidArenaState")
    ELSE LET p == IF total_winner_pool(arena, arena.winner[1]) = 0
                  THEN Some(st.amount)
                  ELSE StakePayout(arena, st)
         IN
         IF p = None THEN Fail("MathOverflow")
         ELSE IF vault < p[1] THEN Fail("InsufficientFunds")
         ELSE [res |-> "Ok", payout |-> p[1]]

\* The account constraints of ClaimReward, then the handler: the result and,
\* when it is Ok, the lamports to transfer out of the vault.
claim_reward_outcome(user) ==
    LET st == stakes[user]
        Fail(e) == [res |-> e, payout |-> 0]
    IN
    IF ~arena_init \/ ~st.exists THEN Fail("AccountNotInitialized")
    ELSE IF arena.status # "Settled" THEN Fail("InvalidArenaState")
    ELSE IF st.owner # user THEN Fail("InvalidArenaState")
    ELSE IF ~NotClaimed(st) THEN Fail("AlreadyClaimed")
    ELSE IF arena.winner = None THEN Fail("InvalidArenaState")
    ELSE IF ~OnWinningSide(st, arena.winner[1]) THEN Fail("InvalidArenaState")
    ELSE IF ~WinnerPoolFunded(total_winner_pool(arena, arena.winner[1]))
         THEN Fail("MathOverflow")
    ELSE LET p == StakePayout(arena, st) IN
         IF p = None THEN Fail("MathOverflow")
         ELSE IF vault < p[1] THEN Fail("InsufficientFunds")
         ELSE [res |-> "Ok", payout |-> p[1]]

claim_reward(user) ==
    LET out == claim_reward_outcome(user) IN
    /\ last' = Call("claim_reward", user, out.res, 0, 0, NoSigs, out.payout)
    /\ UNCHANGED in_transfer
    /\ IF out.res = "Ok"
       THEN /\ stakes' = [stakes EXCEPT ![user].claimed = TRUE]
            /\ vault' = vault - out.payout
            /\ wallet' = [wallet EXCEPT ![user] = wallet[user] + out.payout]
            /\ UNCHANGED <<arena_init, arena>>
       ELSE UNCHANGED <<arena_init, arena, stakes, vault, wallet>>

(***************************************************************************)
(* The program                                                             *)
(***************************************************************************)
SettleMessageAt(winner, n) ==
    create_settlement_message(ArenaKey(arena.creator), winner, n)
ResetMessageAt(n) == create_reset_message(ArenaKey(arena.creator), n)
UpdateMessageAt(new_oracles, n) ==
    create_oracle_update_message(ArenaKey(arena.creator), new_oracles, n)

OptionalSignatureSets(a, MessageAt(_), variety) ==
    {None} \cup {Some(sigs) : sigs \in SignatureSets(a, MessageAt, variety)}

NextWith(fees, amounts, sides, variety) ==
    \/ \E creator \in Creators, fee_bps \in fees, keys \in InitialOracleSets :
          initialize_arena(creator, fee_bps, keys)
    \/ \E user \in Users, amount \in amounts, side \in sides :
          place_stake(user, amount, side)
    \/ \E winner \in sides :
          \E sigs \in SignatureSets(arena, LAMBDA n : SettleMessageAt(winner, n), variety) :
             settle_game(winner, sigs)
    \/ \E authority \in Users :
          \E sigs \in OptionalSignatureSets(arena, ResetMessageAt, variety) :
             reset_arena(authority, sigs)
    \/ \E authority \in Users, keys \in NewOracleSets :
          \E sigs \in OptionalSignatureSets(arena, LAMBDA n : UpdateMessageAt(keys, n),
                                            variety) :
             update_oracles(authority, keys, sigs)
    \/ \E user \in Users : claim_reward(user)

\* The funds: every amount, side and fee, privileged calls signed by a quorum.
Next == NextWith(Fees, Amounts, Sides, "quorum")
Spec == Init /\ [][Next]_vars

\* The consensus: every kind of signature set, one fee and whole stakes.
NextConsensus == NextWith({0}, {0, BigAmount}, {0, 1}, "all")
SpecConsensus == Init /\ [][NextConsensus]_vars

(***************************************************************************)
(* claim_reward in two steps: the account validation and the handler up to  *)
(* the request of the transfer (line 398), and the return of the transfer.  *)
(* While a transfer is pending, claim_reward may be entered again; the      *)
(* invocations suspended in their transfer are the stack in_transfer, the   *)
(* innermost last.  An invocation that returns an error undoes what was     *)
(* done since it began, nested invocations included.                        *)
(***************************************************************************)
MaxDepth == 3

StakeAtTransfer_Unflagged(st) == st

\* Line 376: the Stake when the transfer is requested.
StakeAtTransfer(st) == [st EXCEPT !.claimed = TRUE]

\* A suspended invocation: the payout it requested, the accounts as they were
\* when it began and the error of an invocation nested in its transfer.
Frame(user, amount) ==
    [user |-> user, payout |-> amount, saved |-> <<stakes, vault, wallet>>,
     nested_error |-> None]

Innermost(stack) == stack[Len(stack)]
Outer(stack) == SubSeq(stack, 1, Len(stack) - 1)

\* The stack after an invocation nested in the innermost transfer failed.
AfterNestedError(stack, error) ==
    IF stack = <<>> THEN stack
    ELSE [stack EXCEPT ![Len(stack)].nested_error = Some(error)]

\* Lines 582-608 and 333-398: a failed validation or handler, or the Stake
\* flagged and the transfer of the payout requested.
claim_reward_call(user) ==
    LET out == claim_reward_outcome(user)
        st == stakes[user]
    IN
    /\ Len(in_transfer) < MaxDepth
    /\ UNCHANGED <<arena_init, arena, vault, wallet>>
    /\ IF out.res \in {"Ok", "InsufficientFunds"}
       THEN LET amount == StakePayout(arena, st)[1] IN
            /\ stakes' = [stakes EXCEPT ![user] = StakeAtTransfer(st)]
            /\ in_transfer' = Append(in_transfer, Frame(user, amount))
            /\ last' = Call("claim_reward", user, "Transfer", 0, 0, NoSigs, amount)
       ELSE /\ UNCHANGED stakes
            /\ in_transfer' = AfterNestedError(in_transfer, out.res)
            /\ last' = Call("claim_reward", user, out.res, 0, 0, NoSigs, 0)

\* Lines 398-400: the innermost transfer returns, with an error when the
\* vault cannot pay or when the error of a nested invocation is passed on.
transfer_returns(propagate) ==
    LET f == Innermost(in_transfer)
        res == IF vault < f.payout THEN "InsufficientFunds"
               ELSE IF propagate /\ f.nested_error # None THEN f.nested_error[1]
               ELSE "Ok"
    IN
    /\ in_transfer # <<>>
    /\ UNCHANGED <<arena_init, arena>>
    /\ IF res = "Ok"
       THEN /\ vault' = vault - f.payout
            /\ wallet' = [wallet EXCEPT ![f.user] = wallet[f.user] + f.payout]
            /\ UNCHANGED stakes
            /\ in_transfer' = Outer(in_transfer)
            /\ last' = Call("claim_reward", f.user, "Ok", 0, 0, NoSigs, f.payout)
       ELSE /\ stakes' = f.saved[1]
            /\ vault' = f.saved[2]
            /\ wallet' = f.saved[3]
            /\ in_transfer' = AfterNestedError(Outer(in_transfer), res)
            /\ last' = Call("claim_reward", f.user, res, 0, 0, NoSigs, 0)

\* The re-entry: whole transactions while no transfer is pending, and
\* claim_reward entered at any depth.  One fee, one amount, creator resets.
NextReentrant ==
    \/ \E creator \in Creators, keys \in InitialOracleSets :
          in_transfer = <<>> /\ initialize_arena(creator, 0, keys)
    \/ \E user \in Users, side \in {0, 1} :
          in_transfer = <<>> /\ place_stake(user, SmallAmount, side)
    \/ \E winner \in {0, 1} :
          \E sigs \in SignatureSets(arena, LAMBDA n : SettleMessageAt(winner, n),
                                    "quorum") :
             in_transfer = <<>> /\ settle_game(winner, sigs)
    \/ \E authority \in Users :
          in_transfer = <<>> /\ reset_arena(authority, None)
    \/ \E user \in Users : claim_reward_call(user)
    \/ \E propagate \in BOOLEAN : transfer_returns(propagate)

SpecReentrant == Init /\ [][NextReentrant]_vars

(***************************************************************************)
(* Properties                                                              *)
(***************************************************************************)
Succeeded(call, op) == call.op = op /\ call.res = "Ok"

\* The funds a transaction can move.
Accounts == <<arena_init, arena, stakes, vault, wallet>>

\* The payout claim_reward computes for the Stake of user in a settled arena:
\* none for a Stake that is absent, already claimed or on the losing side, or
\* when the computation fails.
ComputedPayout(user) ==
    LET st == stakes[user] IN
    IF st.exists /\ ~st.claimed /\ Some(st.side) = arena.winner
       /\ total_winner_pool(arena, arena.winner[1]) > 0
       /\ StakePayout(arena, st) # None
    THEN StakePayout(arena, st)[1]
    ELSE 0

RECURSIVE SumOfPayouts(_)
SumOfPayouts(users) ==
    IF users = {} THEN 0
    ELSE LET u == CHOOSE x \in users : TRUE
         IN ComputedPayout(u) + SumOfPayouts(users \ {u})

\* floor(loser_pool * (10000 - fee_bps) / 10000)
NetLoserPool(a) ==
    (total_loser_pool(a, a.winner[1]) * (BPS_DENOMINATOR - a.fee_bps))
        \div BPS_DENOMINATOR

\* C1: in every Settled state the payouts claim_reward computes for the
\* stakes on the winning side sum to at most winner_pool + the net loser pool.
C1_PayoutsWithinPool ==
    (arena_init /\ arena.status = "Settled") =>
        SumOfPayouts(Users)
            <= total_winner_pool(arena, arena.winner[1]) + NetLoserPool(arena)

\* A privileged call that the committee's signatures, not the creator, authorise.
ByConsensus(call, a) ==
    \/ call.op = "settle_game"
    \/ /\ call.op \in {"reset_arena", "update_oracles"}
       /\ call.user # a.creator
       /\ call.sigs # None

\* The nonce a signed message is bound to: its last field.
MessageNonce(message) == message[Len(message)]

\* Every signature of the set is over a message bound to a nonce before nonce.
BoundBefore(sigs, nonce) ==
    /\ Len(sigs) >= ORACLE_THRESHOLD
    /\ \A i \in 1..Len(sigs) : MessageNonce(sigs[i].signature.message) < nonce

\* C2: replay resistance: a consensus-authorised privileged call whose
\* signature set is bound to a nonce the arena has moved past is rejected.
C2_ReplayRejected ==
    [][(ByConsensus(last', arena) /\ BoundBefore(last'.sigs[1], arena.settlement_nonce))
          => last'.res # "Ok"]_vars

\* The message the call's signatures must be over, in the state it is made in.
CallMessage(call, a, after) ==
    IF call.op = "settle_game"
    THEN create_settlement_message(ArenaKey(a.creator), call.side, a.settlement_nonce)
    ELSE IF call.op = "reset_arena"
    THEN create_reset_message(ArenaKey(a.creator), a.settlement_nonce)
    ELSE create_oracle_update_message(ArenaKey(a.creator), after.oracles,
                                      a.settlement_nonce)

\* What an Ed25519 verification decides: the signature was produced by the
\* key, over exactly the message.
Ed25519Valid(pubkey, message, signature) ==
    signature.signer = pubkey /\ signature.message = message

SoundSet(sigs, a, message) ==
    /\ Len(sigs) >= a.oracle_threshold
    /\ \A i \in 1..Len(sigs) :
          /\ sigs[i].oracle_index < MAX_ORACLES
          /\ \A j \in 1..Len(sigs) : sigs[j].oracle_index = sigs[i].oracle_index => j = i
          /\ Ed25519Valid(a.oracles[sigs[i].oracle_index + 1], message,
                          sigs[i].signature)

\* C3: consensus soundness: a consensus-authorised privileged call succeeds
\* only with at least oracle_threshold signatures, of distinct indices below 3,
\* each valid for the committee member of its index over the call's message
\* at the current nonce.
C3_ConsensusSound ==
    [][(ByConsensus(last', arena) /\ last'.res = "Ok")
          => SoundSet(last'.sigs[1], arena, CallMessage(last', arena, arena'))]_vars

\* A claim_reward on a Stake that has claimed = true.
ClaimOnClaimed == last'.op = "claim_reward" /\ stakes[last'.user].claimed

\* C4 as stated: every claim_reward on a claimed Stake fails with
\* AlreadyClaimed, changes nothing and requests no transfer.
C4_AlwaysAlreadyClaimed ==
    [][ClaimOnClaimed
          => /\ last'.res = "AlreadyClaimed"
             /\ last'.transfer = 0
             /\ UNCHANGED Accounts]_vars

\* C4 amended: every claim_reward on a claimed Stake fails, with AlreadyClaimed
\* in a Settled arena and with InvalidArenaState in an Active one, changes
\* nothing and requests no transfer.
C4_ClaimedNeverPaidAgain ==
    [][ClaimOnClaimed
          => /\ last'.res = IF arena.status = "Settled" THEN "AlreadyClaimed"
                            ELSE "InvalidArenaState"
             /\ last'.transfer = 0
             /\ UNCHANGED Accounts]_vars

\* A second claim after a reset and a new round that the Stake's side won.
C4_Witness ==
    /\ last.op = "claim_reward" /\ last.res = "AlreadyClaimed"
    /\ stakes[last.user].claimed
    /\ arena.settlement_nonce >= 3
    /\ Some(stakes[last.user].side) = arena.winner

\* C5: total_pool = agent_a_pool + agent_b_pool in every reachable state.
C5_TotalIsSumOfPools ==
    arena.total_pool = arena.agent_a_pool + arena.agent_b_pool

C5_Witness ==
    arena.agent_a_pool > 0 /\ arena.agent_b_pool > arena.agent_a_pool

\* C6: reset_arena succeeds only from Settled with an empty vault; with
\* lamports in the vault it fails for every caller and changes nothing.
C6_ResetNeedsEmptyVault ==
    [][last'.op = "reset_arena"
          => /\ last'.res = "Ok" => (arena.status = "Settled" /\ vault = 0)
             /\ vault > 0 => (last'.res = "InvalidArenaState" /\ UNCHANGED Accounts)]_vars

\* A reset the committee signed, refused because the vault still holds lamports.
C6_Witness ==
    /\ last.op = "reset_arena" /\ last.res = "InvalidArenaState"
    /\ last.user # arena.creator /\ last.sigs # None
    /\ arena.status = "Settled" /\ vault > 0

\* C7: a successful claim_reward moves, from the vault to the claimant,
\* amount + floor(amount * floor(loser_pool * (10000 - fee_bps) / 10000) / winner_pool);
\* fee 500, pools 1000/3000 and a stake of 200 on the winning side give 770.
C7_PayoutFormula ==
    [][/\ payout(200, 1000, 3000, 500) = Some(770)
       /\ Succeeded(last', "claim_reward") =>
             LET st == stakes[last'.user]
                 due == st.amount + (st.amount * NetLoserPool(arena))
                                        \div total_winner_pool(arena, arena.winner[1])
             IN /\ last'.transfer = due
                /\ vault' = vault - due
                /\ wallet'[last'.user] = wallet[last'.user] + due]_vars

\* A claim paid a reward out of a loser pool that the fee had truncated.
C7_Witness ==
    /\ Succeeded(last, "claim_reward")
    /\ arena.fee_bps = 500
    /\ last.transfer > stakes[last.user].amount
    /\ (total_loser_pool(arena, arena.winner[1]) * (BPS_DENOMINATOR - arena.fee_bps))
          % BPS_DENOMINATOR # 0

\* C8: claim_reward succeeds only in a Settled arena on an unclaimed Stake of
\* the winning side; on the losing side or in an Active arena it fails,
\* requests no transfer and leaves the Stake as it was.
C8_ClaimGuards ==
    [][last'.op = "claim_reward"
          => LET st == stakes[last'.user] IN
             /\ last'.res = "Ok" =>
                   /\ arena.status = "Settled"
                   /\ st.exists /\ ~st.claimed
                   /\ Some(st.side) = arena.winner
             /\ (arena.status = "Active" \/ Some(st.side) # arena.winner) =>
                   /\ last'.res # "Ok"
                   /\ last'.transfer = 0
                   /\ UNCHANGED Accounts]_vars

\* An unclaimed Stake of the losing side was refused.
C8_Witness ==
    /\ last.op = "claim_reward" /\ last.res = "InvalidArenaState"
    /\ arena.status = "Settled"
    /\ stakes[last.user].exists /\ ~stakes[last.user].claimed
    /\ Some(stakes[last.user].side) # arena.winner

\* C9: in a Settled arena whose winning pool is 0 every claim_reward fails
\* with an error, sets no claimed flag and requests no transfer.
C9_ZeroWinnerPoolFails ==
    [][(/\ last'.op = "claim_reward"
        /\ arena.status = "Settled"
        /\ total_winner_pool(arena, arena.winner[1]) = 0)
          => /\ last'.res \in {"AccountNotInitialized", "AlreadyClaimed",
                               "InvalidArenaState", "MathOverflow"}
             /\ last'.transfer = 0
             /\ UNCHANGED Accounts]_vars

\* An unclaimed Stake of the winning side met an empty winning pool.
C9_Witness ==
    /\ last.op = "claim_reward" /\ last.res = "MathOverflow"
    /\ arena.status = "Settled"
    /\ total_winner_pool(arena, arena.winner[1]) = 0
    /\ Some(stakes[last.user].side) = arena.winner

\* A place_stake by a participant whose Stake is on the other side.
StakeOnOtherSide ==
    /\ last'.op = "place_stake"
    /\ stakes[last'.user].exists
    /\ last'.side <= 1
    /\ last'.side # stakes[last'.user].side

\* C10 as stated: a place_stake on the other side fails with
\* InvalidArenaState and changes neither the Stake nor the pools.
C10_OtherSideInvalidState ==
    [][StakeOnOtherSide
          => (last'.res = "InvalidArenaState" /\ UNCHANGED Accounts)]_vars

\* C10 amended: a place_stake on the other side always fails and changes
\* nothing; it fails with InvalidArenaState when the amount is positive and
\* the participant's lamports cover it.
C10_OtherSideRejected ==
    [][StakeOnOtherSide
          => /\ last'.res # "Ok"
             /\ UNCHANGED Accounts
             /\ (last'.amount > 0 /\ wallet[last'.user] >= last'.amount)
                   => last'.res = "InvalidArenaState"]_vars

C10_Witness ==
    /\ last.op = "place_stake" /\ last.res = "InvalidArenaState"
    /\ arena.status = "Active"
    /\ last.amount > 0 /\ wallet[last.user] >= last.amount
    /\ stakes[last.user].exists
    /\ last.side <= 1 /\ last.side # stakes[last.user].side

\* A place_stake that passes the account constraints, the argument checks, the
\* transfer and the update of the Stake (lines 105-137), and so reaches the
\* additions to the pools (lines 139-144).
ReachesPoolAdditions ==
    LET st == stakes[last'.user] IN
    /\ last'.op = "place_stake"
    /\ arena_init /\ arena.status = "Active"
    /\ last'.side <= 1 /\ last'.amount > 0
    /\ wallet[last'.user] >= last'.amount
    /\ st.amount # 0 => (st.side = last'.side /\ st.amount + last'.amount <= U64_MAX)

\* One of the additions to total_pool and to the pool of the side overflows.
PoolAdditionOverflows ==
    LET side_pool == IF last'.side = 0 THEN arena.agent_a_pool ELSE arena.agent_b_pool
    IN \/ arena.total_pool + last'.amount > U64_MAX
       \/ side_pool + last'.amount > U64_MAX

\* C11: an operation that returns an error leaves the Arena and every Stake
\* as they were; a place_stake whose addition to total_pool or to a side pool
\* overflows, after the Stake was updated in the handler, fails with
\* MathOverflow and commits neither the Stake nor the pools nor the transfer.
C11_ErrorsCommitNothing ==
    [][/\ last'.res # "Ok" => UNCHANGED <<arena_init, arena, stakes>>
       /\ (ReachesPoolAdditions /\ PoolAdditionOverflows)
             => (last'.res = "MathOverflow" /\ UNCHANGED Accounts)]_vars

\* A first stake whose amount the Stake takes but total_pool cannot.
C11_Witness ==
    /\ last.op = "place_stake" /\ last.res = "MathOverflow"
    /\ arena.status = "Active"
    /\ last.side <= 1 /\ last.amount > 0 /\ wallet[last.user] >= last.amount
    /\ stakes[last.user] = StakeDefault
    /\ arena.total_pool + last.amount > U64_MAX

Privileged == {"settle_game", "reset_arena", "update_oracles"}

\* C12: settlement_nonce starts at 0 and never decreases: a successful
\* settle_game, reset_arena or update_oracles adds exactly 1 to it; place_stake,
\* claim_reward and every failed operation leave it as it was.
C12_NonceCountsPrivilegedCalls ==
    [][/\ Succeeded(last', "initialize_arena") => arena'.settlement_nonce = 0
       /\ arena'.settlement_nonce >= arena.settlement_nonce
       /\ arena'.settlement_nonce =
             IF last'.op \in Privileged /\ last'.res = "Ok"
             THEN arena.settlement_nonce + 1
             ELSE arena.settlement_nonce]_vars

\* A settle, a reset and a second settle have each counted.
C12_Witness ==
    /\ Succeeded(last, "settle_game")
    /\ arena.settlement_nonce = 3

\* C13: the status of an arena changes only from Active to Settled, by a
\* successful settle_game, and from Settled to Active, by a successful
\* reset_arena; settle_game on an arena that is not Active fails with
\* InvalidArenaState; an initialised arena is never Pending or Cancelled.
C13_StatusLifecycle ==
    [][/\ (arena_init /\ arena'.status # arena.status) =>
             \/ /\ Succeeded(last', "settle_game")
                /\ arena.status = "Active" /\ arena'.status = "Settled"
             \/ /\ Succeeded(last', "reset_arena")
                /\ arena.status = "Settled" /\ arena'.status = "Active"
       /\ Succeeded(last', "settle_game") =>
             (arena.status = "Active" /\ arena'.status = "Settled")
       /\ Succeeded(last', "reset_arena") =>
             (arena.status = "Settled" /\ arena'.status = "Active")
       /\ (last'.op = "settle_game" /\ arena_init /\ arena.status # "Active") =>
             (last'.res = "InvalidArenaState" /\ UNCHANGED Accounts)
       /\ arena_init' => arena'.status \in {"Active", "Settled"}]_vars

\* The committee's quorum for a valid winner, refused by a Settled arena.
C13_Witness ==
    /\ last.op = "settle_game" /\ last.res = "InvalidArenaState"
    /\ last.side <= 1
    /\ arena.status = "Settled"
    /\ VerifyConsensus(last.sigs[1], arena,
                       SettleMessageAt(last.side, arena.settlement_nonce)) = "Ok"

\* C14: in every reachable state the winner is Some(0) or Some(1) exactly when
\* the arena is Settled, and None whenever it is Active.
C14_WinnerIffSettled ==
    /\ arena.winner \in {Some(0), Some(1)} <=> arena.status = "Settled"
    /\ arena.status = "Active" => arena.winner = None
    /\ arena.winner \in {None, Some(0), Some(1)}

\* An arena that was settled for side 1, reset, and is Active again.
C14_Witness ==
    /\ Succeeded(last, "reset_arena")
    /\ arena.status = "Active" /\ arena.winner = None
    /\ \E u \in Users : stakes[u].claimed /\ stakes[u].side = 1

\* The caller of the last call is not the creator and passed no signature set.
StrangerWithoutSignatures ==
    last'.user # arena.creator /\ last'.sigs = None

\* Called by the creator, reset_arena and update_oracles succeed when their
\* other guards hold, whatever the signatures argument.
CreatorNeedsNoSignatures ==
    /\ (last'.op = "reset_arena" /\ arena_init /\ last'.user = arena.creator
          /\ arena.status = "Settled" /\ vault = 0) => last'.res = "Ok"
    /\ \A keys \in NewOracleSets :
          (/\ last'.op = "update_oracles" /\ arena_init
           /\ update_oracles(last'.user, keys, last'.sigs)
           /\ last'.user = arena.creator
           /\ ValidOracleConfig(keys)) => last'.res = "Ok"

\* C15 as stated: the creator needs no signatures, and a call by anyone else
\* with no signature set fails with UnauthorizedOracle and changes nothing.
C15_StrangerUnauthorized ==
    [][/\ CreatorNeedsNoSignatures
       /\ (last'.op \in {"reset_arena", "update_oracles"} /\ arena_init
             /\ StrangerWithoutSignatures)
            => (last'.res = "UnauthorizedOracle" /\ UNCHANGED Accounts)]_vars

\* C15 amended: the creator needs no signatures; a call by anyone else with
\* no signature set always fails and changes nothing, with UnauthorizedOracle
\* when the guards that precede the authorisation hold: a Settled arena with
\* an empty vault for reset_arena, a valid new committee for update_oracles.
C15_CreatorOrConsensus ==
    [][/\ CreatorNeedsNoSignatures
       /\ (last'.op \in {"reset_arena", "update_oracles"} /\ arena_init
             /\ StrangerWithoutSignatures)
            => (last'.res # "Ok" /\ UNCHANGED Accounts)
       /\ (last'.op = "reset_arena" /\ arena_init /\ StrangerWithoutSignatures
             /\ arena.status = "Settled" /\ vault = 0)
            => last'.res = "UnauthorizedOracle"
       /\ \A keys \in NewOracleSets :
             (/\ last'.op = "update_oracles" /\ arena_init
              /\ update_oracles(last'.user, keys, last'.sigs)
              /\ StrangerWithoutSignatures
              /\ ValidOracleConfig(keys)) => last'.res = "UnauthorizedOracle"]_vars

\* The creator reset a Settled, emptied arena with one signature, below the
\* threshold.
C15_Witness ==
    /\ Succeeded(last, "reset_arena")
    /\ last.user = arena.creator
    /\ last.sigs # None
    /\ Len(last.sigs[1]) < arena.oracle_threshold

\* C16: update_oracles is not gated by the status; on success it replaces the
\* committee by the new keys, adds 1 to the nonce and leaves the status, the
\* winner, the pools, fee_bps, the creator, every Stake and the lamports as
\* they were; with new keys that are not 3 distinct non-default keys it fails
\* with InvalidOracleConfig.
C16_UpdateOraclesFrame ==
    [][\A keys \in NewOracleSets :
          (/\ last'.op = "update_oracles" /\ arena_init
           /\ update_oracles(last'.user, keys, last'.sigs)) =>
             /\ ~ValidOracleConfig(keys) =>
                   (last'.res = "InvalidOracleConfig" /\ UNCHANGED Accounts)
             /\ (ValidOracleConfig(keys) /\ last'.user = arena.creator
                   /\ arena.status \in {"Active", "Settled"}) => last'.res = "Ok"
             /\ last'.res = "Ok" =>
                   /\ arena'.oracles = keys
                   /\ arena'.settlement_nonce = arena.settlement_nonce + 1
                   /\ arena' = [arena EXCEPT !.oracles = arena'.oracles,
                                             !.settlement_nonce = arena'.settlement_nonce]
                   /\ UNCHANGED <<arena_init, stakes, vault, wallet>>]_vars

\* The committee was rotated in a Settled arena with unclaimed stakes.
C16_Witness ==
    /\ Succeeded(last, "update_oracles")
    /\ arena.status = "Settled" /\ arena.winner # None
    /\ arena.agent_a_pool > 0 /\ arena.agent_b_pool > 0 /\ vault > 0
    /\ arena.oracles \in NewOracleSets

\* C17: fee_bps is within [0, 10000] in every reachable state and no
\* operation changes it once the arena is created; an initialize_arena with
\* fee_bps > 10000 of an arena that does not exist yet fails with MathOverflow,
\* and none with such a fee creates an arena.
C17_FeeBounded ==
    [][/\ arena.fee_bps \in 0..BPS_DENOMINATOR
       /\ arena'.fee_bps \in 0..BPS_DENOMINATOR
       /\ arena_init => arena'.fee_bps = arena.fee_bps
       /\ Succeeded(last', "initialize_arena") => arena'.fee_bps = last'.amount
       /\ (last'.op = "initialize_arena" /\ last'.amount > BPS_DENOMINATOR) =>
             /\ ~arena_init => last'.res = "MathOverflow"
             /\ last'.res # "Ok"
             /\ UNCHANGED Accounts]_vars

\* A creation with a fee of 10001 basis points was refused.
C17_Witness ==
    /\ last.op = "initialize_arena" /\ last.res = "MathOverflow"
    /\ last.amount > BPS_DENOMINATOR
    /\ ~arena_init

\* C18: once a Stake exists no operation removes it, changes its side or its
\* owner, or decreases its amount, also across settle_game, claim_reward and
\* reset_arena followed by further stakes.
C18_StakeSideFixedAmountGrows ==
    [][\A u \in Users :
          stakes[u].exists =>
             /\ stakes'[u].exists
             /\ stakes'[u].owner = stakes[u].owner
             /\ stakes'[u].side = stakes[u].side
             /\ stakes'[u].amount >= stakes[u].amount]_vars

\* A further stake, after a claim and a reset, added to the Stake of the
\* earlier round.
C18_Witness ==
    /\ Succeeded(last, "place_stake")
    /\ arena.settlement_nonce >= 2
    /\ stakes[last.user].claimed
    /\ stakes[last.user].side = last.side
    /\ stakes[last.user].amount > last.amount

\* The sum of amount over the Stakes that exist with the given side.
RECURSIVE SumOfStakes(_, _)
SumOfStakes(users, side) ==
    IF users = {} THEN 0
    ELSE LET u == CHOOSE x \in users : TRUE
             own == IF stakes[u].exists /\ stakes[u].side = side
                    THEN stakes[u].amount ELSE 0
         IN own + SumOfStakes(users \ {u}, side)

\* C19: in every reachable state agent_a_pool is the sum of amount over the
\* Stakes of side 0 and agent_b_pool the sum over those of side 1, also after
\* reset_arena has zeroed the pools.
C19_PoolsAreStakeSums ==
    /\ arena.agent_a_pool = SumOfStakes(Users, 0)
    /\ arena.agent_b_pool = SumOfStakes(Users, 1)

\* Every Stake on the winning side has claimed = true.
AllWinnersClaimed ==
    \A u \in Users :
        (stakes[u].exists /\ Some(stakes[u].side) = arena.winner) => stakes[u].claimed

\* C20: in every reachable Settled state in which every Stake on the winning
\* side has claimed, the vault holds no lamports.
C20_AllClaimedVaultEmpty ==
    (arena_init /\ arena.status = "Settled" /\ AllWinnersClaimed) => vault = 0

\* C21: while the arena is Settled every place_stake fails with
\* InvalidArenaState, and no operation but a successful reset_arena changes
\* the pools, the winner or the amount of any Stake: all the payouts of a
\* round are computed from the same pool totals.
C21_SettledFreezesPools ==
    [][/\ (last'.op = "place_stake" /\ arena_init /\ arena.status = "Settled") =>
             (last'.res = "InvalidArenaState" /\ UNCHANGED Accounts)
       /\ (arena_init /\ arena.status = "Settled"
             /\ ~Succeeded(last', "reset_arena")) =>
             /\ arena'.status = "Settled"
             /\ arena'.winner = arena.winner
             /\ arena'.total_pool = arena.total_pool
             /\ arena'.agent_a_pool = arena.agent_a_pool
             /\ arena'.agent_b_pool = arena.agent_b_pool
             /\ \A u \in Users : stakes'[u].amount = stakes[u].amount]_vars

\* A stake that an Active arena would have taken, refused by a Settled one
\* in which a winner was already paid.
C21_Witness ==
    /\ last.op = "place_stake" /\ last.res = "InvalidArenaState"
    /\ arena.status = "Settled"
    /\ last.amount > 0 /\ last.side <= 1
    /\ wallet[last.user] >= last.amount
    /\ stakes[last.user].exists /\ stakes[last.user].side = last.side
    /\ stakes[last.user].amount + last.amount <= U64_MAX
    /\ arena.total_pool + last.amount <= U64_MAX
    /\ \E u \in Users : stakes[u].claimed

\* A transfer of the Stake of user is pending.
TransferPending(stack, user) ==
    \E i \in 1..Len(stack) : stack[i].user = user

\* The last step entered claim_reward (it did not return from a transfer).
Entered == last'.op = "claim_reward" /\ Len(in_transfer') >= Len(in_transfer)

====
